---------------------------- MODULE Spec2Model ----------------------------
(***************************************************************************)
(* The adaptive engagement controller of the Mastery Machine backend       *)
(* (backend/engagement_engine.py) together with the part of the WebSocket  *)
(* handler (backend/main.py) that drives it.                               *)
(*                                                                         *)
(* Representation.                                                         *)
(*  - Time is an integer number of ticks of 100 seconds: 36 ticks are one  *)
(*    hour, the 5 minute rescue window is 3 ticks, 7 days are 6048 ticks.  *)
(*  - A Float column holds a fixed-point number with Scale units per 1.    *)
(*    Every comparison of the code is against a literal that is a multiple *)
(*    of 1/Scale, so flooring to 1/Scale never changes its outcome.        *)
(*  - A text is a sequence of one-character strings.                       *)
(*  - None is NULL (-1) for integers and timestamps, "None" for a concept  *)
(*    or a mode, 0 for a question id.                                      *)
(***************************************************************************)
EXTENDS Integers, Sequences, FiniteSets

(* ------------------------------ bounds -------------------------------- *)

\* Response rows the modelled session may record.
MaxEvents == 2

\* Last clock value the modelled session may reach.
MaxClock == 14

(* ------------------------- program constants -------------------------- *)

Scale == 1000

NULL == -1

TicksPerHour == 36

RescueWindow == 3

ReviewDelay == 6048

TopN == 5

MinConsecutivePerfect == 10

HesitationLimitMs == 2000

HintLimit == 20

\* MASTERY_THRESHOLDS, in units of 1/Scale.
AccuracyThreshold == 990

SpeedRatioThreshold == 1300

FormatCoverageThreshold == 800

PredictedRecallThreshold == 950

\* The thresholds of the state category and of the rescue stage.
StrugglingBelow == 500

LearningFrom == 700

SkipRatioThreshold == 300

\* The thresholds of the answer evaluator.
CorrectAbove == 900

PartialAbove == 700

Max(a, b) == IF a >= b THEN a ELSE b

Min(a, b) == IF a <= b THEN a ELSE b

(* ------------------------------- texts -------------------------------- *)

\* Whitespace, as str.strip() and str.split() see it.
IsBlank(ch) == ch \in {" ", "\t", "\n"}

LowerChar(ch) ==
    CASE ch = "A" -> "a"
      [] ch = "B" -> "b"
      [] ch = "C" -> "c"
      [] ch = "D" -> "d"
      [] ch = "E" -> "e"
      [] ch = "F" -> "f"
      [] OTHER -> ch

\* str.lower()
Lower(s) == [i \in 1..Len(s) |-> LowerChar(s[i])]

RECURSIVE LStrip(_)
LStrip(s) == IF s # <<>> /\ IsBlank(Head(s)) THEN LStrip(Tail(s)) ELSE s

RECURSIVE RStrip(_)
RStrip(s) ==
    IF s # <<>> /\ IsBlank(s[Len(s)])
    THEN RStrip(SubSeq(s, 1, Len(s) - 1))
    ELSE s

\* str.strip()
Strip(s) == RStrip(LStrip(s))

\* set(str.split()): the maximal runs of non-blank characters.
WordSet(s) ==
    LET starts == { i \in 1..Len(s) :
                      ~IsBlank(s[i]) /\ (i = 1 \/ IsBlank(s[i - 1])) }
        ends == { j \in 1..Len(s) :
                    ~IsBlank(s[j]) /\ (j = Len(s) \/ IsBlank(s[j + 1])) }
        endOf(i) == CHOOSE j \in ends : j >= i /\ \A k \in ends : k >= i => j <= k
    IN  { SubSeq(s, i, endOf(i)) : i \in starts }

\* The ratio test with >= in the place of >.
RatioAtLeast(intersection, union, t) ==
    Cardinality(intersection) * Scale >= t * Cardinality(union)

\* len(intersection) / len(union) > t / Scale, decided on the integers so
\* that no rounding can turn > into =.
RatioAbove(intersection, union, t) ==
    Cardinality(intersection) * Scale > t * Cardinality(union)

\* _calculate_similarity(s1, s2) > t / Scale
SimilarityAbove(words1, words2, t) ==
    /\ words1 # {}
    /\ words2 # {}
    /\ RatioAbove(words1 \cap words2, words1 \cup words2, t)

\* _calculate_similarity: the Jaccard index of the word sets, in 1/Scale.
CalculateSimilarity(s1, s2) ==
    LET words1 == WordSet(s1)
        words2 == WordSet(s2)
    IN  IF words1 = {} \/ words2 = {}
        THEN 0
        ELSE (Cardinality(words1 \cap words2) * Scale)
                \div Cardinality(words1 \cup words2)

\* _evaluate_answer: <<is_correct, is_partial>>.
EvaluateAnswer(user_answer, answer_text) ==
    LET correct_answer == Strip(Lower(answer_text))
        given == Strip(Lower(user_answer))
        words1 == WordSet(given)
        words2 == WordSet(correct_answer)
    IN  IF given = correct_answer THEN <<TRUE, FALSE>>
        ELSE IF SimilarityAbove(words1, words2, CorrectAbove)
             THEN <<TRUE, FALSE>>
        ELSE IF SimilarityAbove(words1, words2, PartialAbove)
             THEN <<FALSE, TRUE>>
        ELSE <<FALSE, FALSE>>

\* _generate_hint cutting a long answer without marking the cut.
GenerateHintWithoutEllipsis(answer) ==
    IF Len(answer) > HintLimit
    THEN SubSeq(answer, 1, HintLimit)
    ELSE <<answer[1]>> \o [i \in 1..(Len(answer) - 1) |-> "_"]

\* _generate_hint
GenerateHint(answer) ==
    IF Len(answer) > HintLimit
    THEN SubSeq(answer, 1, HintLimit) \o <<".", ".", ".">>
    ELSE <<answer[1]>> \o [i \in 1..(Len(answer) - 1) |-> "_"]

(* ------------------------ the content of the store -------------------- *)

\* Materials with their concepts in the order the query returns them.
MaterialConcepts(m) ==
    CASE m = "m0" -> <<>>
      [] m = "m1" -> <<"c1", "c2">>
      [] m = "m2" -> <<"c3">>

Materials == {"m0", "m1"}

AllConcepts == {"c1", "c2"}

Ref1 == <<"a", " ", "b", " ", "c", " ", "d">>

Ref2 == <<"e", " ", "f">>

\* The question bank: like the demo material, a RAPID_FIRE and a GUIDED_SOLVE
\* question per concept, and a second GUIDED_SOLVE question with another
\* answer for c1, as the generator writes several per mode; a MICRO_WINS
\* question for c2; for c3, the one concept of m2, questions in two modes and
\* none in the others.
Question(q) ==
    CASE q = 1 -> [concept_id |-> "c1", mode |-> "GUIDED_SOLVE", answer_text |-> Ref1]
      [] q = 2 -> [concept_id |-> "c1", mode |-> "GUIDED_SOLVE", answer_text |-> Ref2]
      [] q = 3 -> [concept_id |-> "c1", mode |-> "RAPID_FIRE", answer_text |-> Ref1]
      [] q = 4 -> [concept_id |-> "c2", mode |-> "GUIDED_SOLVE", answer_text |-> Ref1]
      [] q = 5 -> [concept_id |-> "c2", mode |-> "RAPID_FIRE", answer_text |-> Ref1]
      [] q = 6 -> [concept_id |-> "c2", mode |-> "MICRO_WINS", answer_text |-> Ref1]
      [] q = 7 -> [concept_id |-> "c3", mode |-> "COLLABORATIVE", answer_text |-> Ref1]
      [] q = 8 -> [concept_id |-> "c3", mode |-> "MICRO_WINS", answer_text |-> Ref1]
      [] q = 9 -> [concept_id |-> "c3", mode |-> "MICRO_WINS", answer_text |-> Ref1]

QuestionIds == 1..9

\* The answer messages a client sends: answer, response_time_ms,
\* hesitation_ms. The first text is Ref1 up to case and blanks, the second
\* has the words of Ref1 in another order, the third has three of its four
\* words.
AnswerMessages ==
    { [ answer |-> <<" ", "A", " ", "b", " ", "c", " ", "D", " ">>,
        response_time_ms |-> 1000, hesitation_ms |-> 0 ],
      [ answer |-> <<"d", " ", "c", " ", "b", " ", "a">>,
        response_time_ms |-> 5000, hesitation_ms |-> 3000 ],
      [ answer |-> <<"a", " ", "b", " ", "c">>,
        response_time_ms |-> 1000, hesitation_ms |-> 0 ] }

\* The verdicts of the evaluator on the messages and the bank, computed once.
VerdictTable ==
    [ q \in QuestionIds |->
        [ msg \in AnswerMessages |->
            EvaluateAnswer(msg.answer, Question(q).answer_text) ] ]

\* What the earlier sessions of the user left for a concept: nothing, a run
\* of correct answers one short of the mastery streak, or the full streak.
PriorLevels == {0, MinConsecutivePerfect - 1, MinConsecutivePerfect}

\* The tick at which the modelled session starts: right after the earlier ones.
StartClock == MinConsecutivePerfect

\* How long the client may take before its next message, in ticks.
TickSteps == {4}

(* ------------------------- UserConceptState -------------------------- *)

States == {"untouched", "learning", "struggling", "proficient", "mastered"}

\* `if x:` on a nullable integer column: None and 0 are both false.
Truthy(x) == x # NULL /\ x # 0

\* list membership
InList(x, l) == \E i \in 1..Len(l) : l[i] = x

\* The row _get_or_create_concept_state inserts, with the column defaults.
NewConceptState(now) ==
    [ state |-> "untouched",
      accuracy |-> 0,
      total_attempts |-> 0,
      correct_attempts |-> 0,
      consecutive_perfect |-> 0,
      max_streak |-> 0,
      avg_response_time_ms |-> NULL,
      baseline_response_time_ms |-> NULL,
      hesitation_count |-> 0,
      formats_tested |-> <<>>,
      formats_passed |-> <<>>,
      predicted_recall_probability |-> 0,
      next_review_at |-> NULL,
      mastered_at |-> NULL,
      updated_at |-> now ]

\* _get_or_create_concept_state: the table after the call.
GetOrCreate(table, c, now) ==
    IF c \in DOMAIN table
    THEN table
    ELSE [k \in DOMAIN table \cup {c} |->
            IF k = c THEN NewConceptState(now) ELSE table[k]]

\* The table with the row of c replaced.
WithRow(table, c, row) ==
    [k \in DOMAIN table \cup {c} |-> IF k = c THEN row ELSE table[k]]

(* ---------------------------- ModeSelector ---------------------------- *)

\* _select_mode without its branch for untouched concepts, which are then
\* treated as struggling ones.
SelectModeWithoutGuided(row) ==
    IF row.state \in {"untouched", "struggling"} THEN "COLLABORATIVE"
    ELSE IF row.state = "learning"
         THEN IF row.total_attempts % 3 = 0 THEN "RAPID_FIRE"
              ELSE IF row.total_attempts % 3 = 1 THEN "FILL_STORY"
              ELSE "NUMBER_SWAP"
    ELSE IF row.state = "proficient"
         THEN IF row.total_attempts % 2 = 0 THEN "EXPLAIN_BACK"
              ELSE "SPOT_ERROR"
    ELSE "BUILD_MAP"

\* _select_mode, on the row of the current concept.
SelectMode(row) ==
    IF row.state = "untouched" THEN "GUIDED_SOLVE"
    ELSE IF row.state = "struggling" THEN "COLLABORATIVE"
    ELSE IF row.state = "learning"
         THEN IF row.total_attempts % 3 = 0 THEN "RAPID_FIRE"
              ELSE IF row.total_attempts % 3 = 1 THEN "FILL_STORY"
              ELSE "NUMBER_SWAP"
    ELSE IF row.state = "proficient"
         THEN IF row.total_attempts % 2 = 0 THEN "EXPLAIN_BACK"
              ELSE "SPOT_ERROR"
    ELSE "BUILD_MAP"

(* --------------------------- RecallPredictor -------------------------- *)

RECURSIVE IsqrtBetween(_, _, _)
IsqrtBetween(n, lo, hi) ==
    IF lo >= hi THEN lo
    ELSE LET mid == (lo + hi + 1) \div 2
         IN  IF mid * mid <= n
             THEN IsqrtBetween(n, mid, hi)
             ELSE IsqrtBetween(n, lo, mid - 1)

\* time_since ** (-decay_rate) for time_since = ticks / TicksPerHour hours and
\* decay_rate = 0.5, in 1/Scale: the square root of TicksPerHour / ticks.
ActivationOf(ticks) ==
    IsqrtBetween((TicksPerHour * Scale * Scale) \div ticks, 0, 8 * Scale)

\* The activations of the elapsed times a session can see, computed once.
ActivationTable == [ ticks \in 1..(MaxClock + 1) |-> ActivationOf(ticks) ]

Activation(ticks) ==
    IF ticks \in DOMAIN ActivationTable
    THEN ActivationTable[ticks]
    ELSE ActivationOf(ticks)

\* Whether a row is a correct response for the concept.
IsCorrectFor(row, c) == row.concept_id = c /\ row.is_correct

\* The sum of the activations of the correct responses of the concept from
\* row i on; a response that is not in the past adds nothing.
RECURSIVE ActivationSum(_, _, _, _)
ActivationSum(rows, c, now, i) ==
    IF i > Len(rows) THEN 0
    ELSE (IF IsCorrectFor(rows[i], c) /\ now - rows[i].created_at > 0
          THEN Activation(now - rows[i].created_at) ELSE 0)
         + ActivationSum(rows, c, now, i + 1)

\* 1 / (1 + exp(-log(sum))) = sum / (1 + sum), in 1/Scale.
Logistic(sum) == (sum * Scale) \div (Scale + sum)

\* _calculate_predicted_recall, over the rows the query sees.
CalculatePredictedRecall(total_attempts, rows, c, now) ==
    IF total_attempts = 0 THEN 0
    ELSE IF ~\E i \in 1..Len(rows) : IsCorrectFor(rows[i], c) THEN 0
    ELSE LET activation_sum == ActivationSum(rows, c, now, 1)
         IN  IF activation_sum = 0 THEN 0 ELSE Logistic(activation_sum)

(* ----------------------- _update_concept_state ------------------------ *)

\* The state category without the proficient one.
StateCategoryWithoutProficient(accuracy, consecutive_perfect) ==
    IF accuracy < StrugglingBelow THEN "struggling"
    ELSE IF accuracy >= LearningFrom THEN "learning"
    ELSE "struggling"

\* The state category with learning starting at the lower threshold.
StateCategoryLearningFromHalf(accuracy, consecutive_perfect) ==
    IF accuracy >= AccuracyThreshold
       /\ consecutive_perfect >= MinConsecutivePerfect THEN "proficient"
    ELSE IF accuracy >= StrugglingBelow THEN "learning"
    ELSE "struggling"

\* _update_concept_state: the state category of the updated row.
StateCategory(accuracy, consecutive_perfect) ==
    IF accuracy < StrugglingBelow THEN "struggling"
    ELSE IF accuracy >= AccuracyThreshold
            /\ consecutive_perfect >= MinConsecutivePerfect THEN "proficient"
    ELSE IF accuracy >= LearningFrom THEN "learning"
    ELSE "struggling"

\* The accuracy with one attempt too many in the denominator.
NewAccuracyOffByOne(correct_attempts, total_attempts) ==
    (correct_attempts * Scale) \div (total_attempts + 1)

NewAccuracy(correct_attempts, total_attempts) ==
    (correct_attempts * Scale) \div total_attempts

\* The streak when an answer that is not correct leaves it as it is.
NewStreakKept(consecutive_perfect, is_correct) ==
    IF is_correct THEN consecutive_perfect + 1 ELSE consecutive_perfect

NewStreak(consecutive_perfect, is_correct) ==
    IF is_correct THEN consecutive_perfect + 1 ELSE 0

\* _update_concept_state: the row after the update. rows is the responses
\* table as the recall query sees it: the session does not autoflush, so the
\* response added by process_answer is not in it yet.
UpdateConceptState(row, c, is_correct, response_time_ms, hesitation_ms, mode, rows, now) ==
    LET total == row.total_attempts + 1
        correct == row.correct_attempts + (IF is_correct THEN 1 ELSE 0)
        accuracy == NewAccuracy(correct, total)
        streak == NewStreak(row.consecutive_perfect, is_correct)
        first_time == ~Truthy(row.avg_response_time_ms)
        untested == ~InList(mode, row.formats_tested)
    IN  [ row EXCEPT
            !.total_attempts = total,
            !.correct_attempts = correct,
            !.accuracy = accuracy,
            !.consecutive_perfect = streak,
            !.max_streak = IF is_correct THEN Max(@, streak) ELSE @,
            !.avg_response_time_ms =
                IF first_time THEN response_time_ms
                ELSE (@ * (total - 1) + response_time_ms) \div total,
            !.baseline_response_time_ms =
                IF first_time THEN response_time_ms ELSE @,
            !.hesitation_count =
                IF hesitation_ms > HesitationLimitMs THEN @ + 1 ELSE @,
            !.formats_tested = IF untested THEN Append(@, mode) ELSE @,
            !.formats_passed =
                IF untested /\ is_correct THEN Append(@, mode) ELSE @,
            !.predicted_recall_probability =
                CalculatePredictedRecall(total, rows, c, now),
            !.state = StateCategory(accuracy, streak),
            !.updated_at = now ]

(* ---------------------------- MasteryJudge ---------------------------- *)

SpeedTooSlow(row) ==
    /\ Truthy(row.baseline_response_time_ms)
    /\ Truthy(row.avg_response_time_ms)
    /\ row.avg_response_time_ms * Scale
         > SpeedRatioThreshold * row.baseline_response_time_ms

FormatCoverageTooLow(row) ==
    /\ Len(row.formats_tested) > 0
    /\ Len(row.formats_passed) * Scale
         < FormatCoverageThreshold * Len(row.formats_tested)

\* _check_mastery without its test of the predicted recall.
MasteryGrantedWithoutRecall(row) ==
    /\ row.state # "mastered"
    /\ ~(row.accuracy < AccuracyThreshold)
    /\ ~(row.consecutive_perfect < MinConsecutivePerfect)
    /\ ~SpeedTooSlow(row)
    /\ ~FormatCoverageTooLow(row)

\* _check_mastery asking for a streak longer than the threshold.
MasteryGrantedAfterLongerStreak(row) ==
    /\ row.state # "mastered"
    /\ ~(row.accuracy < AccuracyThreshold)
    /\ ~(row.consecutive_perfect <= MinConsecutivePerfect)
    /\ ~SpeedTooSlow(row)
    /\ ~FormatCoverageTooLow(row)
    /\ ~(row.predicted_recall_probability < PredictedRecallThreshold)

\* _check_mastery: whether it returns True.
MasteryGranted(row) ==
    /\ row.state # "mastered"
    /\ ~(row.accuracy < AccuracyThreshold)
    /\ ~(row.consecutive_perfect < MinConsecutivePerfect)
    /\ ~SpeedTooSlow(row)
    /\ ~FormatCoverageTooLow(row)
    /\ ~(row.predicted_recall_probability < PredictedRecallThreshold)

\* _check_mastery: the row after the call.
CheckMastery(row, now) ==
    IF MasteryGranted(row)
    THEN [ row EXCEPT !.state = "mastered",
                      !.mastered_at = now,
                      !.next_review_at = now + ReviewDelay,
                      !.updated_at = now ]
    ELSE row

(* ------------------------------ queries ------------------------------- *)

\* The elements of a list.
Range(l) == { l[i] : i \in 1..Len(l) }

\* Question ids of a concept, and of a concept in a mode.
QuestionsOf(c) == { q \in QuestionIds : Question(q).concept_id = c }

QuestionsIn(c, mode) == { q \in QuestionsOf(c) : Question(q).mode = mode }

\* The rows .first() may return for the lookup of process_answer, process_peek
\* and get_hint: the query has no ORDER BY, so any row of the mode's pool, and
\* when the pool is empty any question of the concept.
LookupQuestion(c, mode) ==
    IF QuestionsIn(c, mode) # {} THEN QuestionsIn(c, mode) ELSE QuestionsOf(c)

\* user_answer of a row written without one (None).
NoText == <<"None">>

\* A row of the responses table.
ResponseRow(c, q, sid, mode, answer, correct, partial, skipped, peeked, rt, seq, now) ==
    [ concept_id |-> c,
      question_id |-> q,
      session_id |-> sid,
      mode |-> mode,
      user_answer |-> answer,
      is_correct |-> correct,
      is_partial |-> partial,
      skipped |-> skipped,
      peeked |-> peeked,
      response_time_ms |-> rt,
      sequence_number |-> seq,
      created_at |-> now ]

(* -------------------------- ConceptScheduler -------------------------- *)

\* The responses of the last 5 minutes of every session.
RecentResponsesAnySession(rows, sid, now) ==
    { i \in 1..Len(rows) : rows[i].created_at >= now - RescueWindow }

\* The responses of the session in the last 5 minutes.
RecentResponses(rows, sid, now) ==
    { i \in 1..Len(rows) :
        rows[i].session_id = sid /\ rows[i].created_at >= now - RescueWindow }

SkipCount(rows, recent, c) ==
    Cardinality({ i \in recent : rows[i].skipped /\ rows[i].concept_id = c })

\* The skip ratio of the recent responses compared with 50% instead.
SkipRatioAboveHalf(rows, recent) ==
    /\ recent # {}
    /\ Cardinality({ i \in recent : rows[i].skipped }) * 2 > Cardinality(recent)

\* Whether the skip ratio of the recent responses is above 30%.
SkipRatioHigh(rows, recent) ==
    /\ recent # {}
    /\ Cardinality({ i \in recent : rows[i].skipped }) * Scale
         > SkipRatioThreshold * Cardinality(recent)

\* _find_rescue_concept: the concepts it may return ({} for None); max() over
\* the skip counts returns one of the most skipped concepts.
FindRescueConcept(rows, sid, now) ==
    LET recent == RecentResponses(rows, sid, now)
        skipped == { rows[i].concept_id : i \in { j \in recent : rows[j].skipped } }
    IN  IF ~SkipRatioHigh(rows, recent) THEN {}
        ELSE { c \in skipped :
                 \A d \in skipped :
                    SkipCount(rows, recent, d) <= SkipCount(rows, recent, c) }

\* _find_validation_concept: the concepts random.choice may return.
FindValidationConcept(table, concept_list) ==
    { c \in Range(concept_list) \cap DOMAIN table :
        /\ table[c].state = "learning"
        /\ table[c].accuracy >= AccuracyThreshold
        /\ table[c].consecutive_perfect >= MinConsecutivePerfect }

\* _select_optimal_concept scoring every concept.
ScoredAlways(table, c, now) == TRUE

\* Whether _select_optimal_concept scores the concept at all.
Scored(table, c, now) ==
    ~( /\ c \in DOMAIN table
       /\ table[c].state = "mastered"
       /\ ~(table[c].next_review_at # NULL /\ table[c].next_review_at <= now) )

\* The score of a scored concept, in 1/Scale.
Score(table, c, now) ==
    IF c \in DOMAIN table /\ table[c].state = "mastered" THEN 50 * Scale
    ELSE IF c \in DOMAIN table /\ table[c].state = "struggling" THEN 100 * Scale
    ELSE IF c \in DOMAIN table /\ table[c].state = "learning"
         THEN 60 * Scale
              + Min(((now - table[c].updated_at) * 60 * Scale) \div TicksPerHour,
                    30 * Scale)
    ELSE 90 * Scale

\* _select_optimal_concept: the concepts random.choice may return. The sort is
\* stable and descending, so a concept is among the first TopN when fewer than
\* TopN scored concepts have a higher score, or the same score and an earlier
\* place in the list.
SelectOptimalConcept(table, concept_list, now) ==
    LET scored == { i \in 1..Len(concept_list) : Scored(table, concept_list[i], now) }
        score(i) == Score(table, concept_list[i], now)
        before(i) == { j \in scored :
                         \/ score(j) > score(i)
                         \/ score(j) = score(i) /\ j < i }
    IN  IF scored = {}
        THEN { concept_list[1] }
        ELSE { concept_list[i] : i \in { k \in scored : Cardinality(before(k)) < TopN } }

\* _build_question: the outcomes <<question id, asked ids>> it may produce;
\* question id 0 is None.
BuildQuestion(c, mode, asked) ==
    LET fresh == QuestionsIn(c, mode) \ asked
        reset == asked \ QuestionsOf(c)
        other == QuestionsOf(c) \ asked
    IN  IF fresh # {}
        THEN { <<q, asked \cup {q}>> : q \in fresh }
        ELSE IF QuestionsIn(c, mode) # {}
        THEN { <<q, reset \cup {q}>> : q \in QuestionsIn(c, mode) }
        ELSE IF other # {}
        THEN { <<q, asked \cup {q}>> : q \in other }
        ELSE { <<0, asked>> }

\* _check_session_complete satisfied with one concept short of all.
CheckSessionCompleteButOne(table, concept_list) ==
    Cardinality({ c \in Range(concept_list) \cap DOMAIN table :
                    table[c].state = "mastered" }) >= Len(concept_list) - 1

\* _check_session_complete
CheckSessionComplete(table, concept_list) ==
    Cardinality({ c \in Range(concept_list) \cap DOMAIN table :
                    table[c].state = "mastered" }) >= Len(concept_list)

(* ------------------------- the earlier sessions ----------------------- *)

\* The row and the responses of a concept after n correct answers given in
\* earlier sessions, one per tick from tick 0, each in the mode _select_mode
\* chose, with response time 1000 ms and no hesitation: the fold of
\* process_answer over them.
RECURSIVE Replay(_, _)
Replay(c, n) ==
    IF n = 0
    THEN [ row |-> NewConceptState(0), rows |-> <<>> ]
    ELSE LET prev == Replay(c, n - 1)
             now == n - 1
             mode == SelectMode(prev.row)
             q == CHOOSE x \in LookupQuestion(c, mode) :
                     \A y \in LookupQuestion(c, mode) : x <= y
             updated == UpdateConceptState(prev.row, c, TRUE, 1000, 0, mode,
                                           prev.rows, now)
         IN  [ row |-> CheckMastery(updated, now),
               rows |-> Append(prev.rows,
                               ResponseRow(c, q, "s0", mode,
                                           Question(q).answer_text, TRUE, FALSE,
                                           FALSE, FALSE, 1000, n - 1, now)) ]

(* ------------------------------- state -------------------------------- *)

VARIABLES
    clock,                    \* datetime.now() and the database's now()
    concepts,                 \* self.concepts, loaded by __init__
    ucs,                      \* the user's user_concept_states rows, by concept
    responses,                \* the user's responses rows, in insertion order
    session,                  \* the sessions row of this session
    total_concepts_mastered,  \* users.total_concepts_mastered
    current_concept,          \* self.current_concept
    current_mode,             \* self.current_mode
    sequence_number,          \* self.sequence_number
    asked_question_ids,       \* self.asked_question_ids
    pc,                       \* where websocket_endpoint stands
    question_data,            \* the question message sent last
    result,                   \* what the last engine call of the loop returned
    sent_questions,           \* the questions sent to the client so far
    peer,                     \* a second connection opened on the session id
    materials,                \* the materials rows with what hangs on them
    sessions,                 \* the sessions rows start_session created
    call,                     \* the arguments of a function called on its own
    ret                       \* what that call returned

engine == << clock, concepts, ucs, responses, session, total_concepts_mastered,
             current_concept, current_mode, sequence_number, asked_question_ids,
             pc, question_data, result, sent_questions, peer >>

\* The tables the upload and session endpoints write.
library == << materials, sessions >>

vars == << engine, library, call, ret >>

NoCall == [ fn |-> "none" ]

\* The id of the modelled session; "s0" stands for the earlier sessions.
SessionId == "s1"

NoMessage == [ type |-> "none" ]

\* No second connection has been opened on the session id.
NoPeer == [ pc |-> "none", question_data |-> NoMessage ]

\* The rows of the earlier sessions, concept after concept.
RECURSIVE PriorRows(_, _)
PriorRows(prior, cs) ==
    IF cs = <<>> THEN <<>>
    ELSE Replay(Head(cs), prior[Head(cs)]).rows \o PriorRows(prior, Tail(cs))

\* The state after start_session has built the engine and the client has
\* connected: the store holds what earlier sessions of the user left.
StartWith(m, table, rows, mastered) ==
        /\ clock = StartClock
        /\ concepts = MaterialConcepts(m)
        /\ ucs = table
        /\ responses = rows
        /\ session = [ total_questions |-> 0,
                       total_correct |-> 0,
                       concepts_mastered_this_session |-> 0,
                       start_time |-> StartClock,
                       end_time |-> NULL ]
        /\ total_concepts_mastered = mastered
        /\ current_concept = "None"
        /\ current_mode = "None"
        /\ sequence_number = 0
        /\ asked_question_ids = {}
        /\ pc = "connected"
        /\ question_data = NoMessage
        /\ result = NoMessage
        /\ sent_questions = {}
        /\ peer = NoPeer
        /\ materials = <<>>
        /\ sessions = <<>>
        /\ call = NoCall
        /\ ret = NoCall

\* The store after the earlier sessions of the user on the concepts of m1.
Start(m, prior) ==
    StartWith(m,
              [ c \in { d \in AllConcepts : prior[d] > 0 } |->
                  Replay(c, prior[c]).row ],
              PriorRows(prior, <<"c1", "c2">>),
              Cardinality({ c \in AllConcepts :
                              prior[c] > 0
                              /\ Replay(c, prior[c]).row.mastered_at # NULL }))

Init ==
    \E m \in Materials :
    \E prior \in [AllConcepts -> PriorLevels] :
        /\ m = "m0" => \A c \in AllConcepts : prior[c] = 0
        /\ prior["c2"] <= prior["c1"]
        /\ Start(m, prior)

(* ------------------------------ actions ------------------------------- *)

\* The concept and mode get_next_question may select, with the table after
\* _select_mode has created the row of the concept.
SelectNext ==
    LET rescue == FindRescueConcept(responses, SessionId, clock)
        validation == FindValidationConcept(ucs, concepts)
    IN  IF rescue # {}
        THEN { [ concept |-> c, mode |-> "MICRO_WINS", table |-> ucs ] :
                 c \in rescue }
        ELSE IF validation # {}
        THEN { [ concept |-> c, mode |-> "MASTERY_VALIDATION", table |-> ucs ] :
                 c \in validation }
        ELSE { [ concept |-> c,
                 mode |-> SelectMode(GetOrCreate(ucs, c, clock)[c]),
                 table |-> GetOrCreate(ucs, c, clock) ] :
                 c \in SelectOptimalConcept(ucs, concepts, clock) }

\* A question message without a question in the place of the error.
BlankQuestion ==
    [ pc |-> "question_sent",
      message |-> [ type |-> "question", mode |-> "None", concept |-> "None",
                    question |-> 0 ] ]

\* What websocket_endpoint does when get_next_question returns None: it sends
\* an error message and closes the connection.
NoQuestion == [ pc |-> "closed", message |-> [ type |-> "error" ] ]

\* websocket_endpoint asks the engine for the next question and sends it, or
\* sends an error and closes when there is none.
GetNextQuestion ==
    /\ pc \in {"connected", "awaiting_question"}
    /\ IF concepts = <<>>
       THEN /\ pc' = NoQuestion.pc
            /\ question_data' = NoQuestion.message
            /\ UNCHANGED << ucs, current_concept, current_mode,
                            asked_question_ids, sent_questions >>
       ELSE \E sel \in SelectNext :
            \E built \in BuildQuestion(sel.concept, sel.mode, asked_question_ids) :
                /\ current_concept' = sel.concept
                /\ current_mode' = sel.mode
                /\ ucs' = sel.table
                /\ asked_question_ids' = built[2]
                /\ IF built[1] = 0
                   THEN /\ pc' = NoQuestion.pc
                        /\ question_data' = NoQuestion.message
                        /\ sent_questions' = sent_questions
                   ELSE /\ pc' = "question_sent"
                        /\ question_data' =
                             [ type |-> "question",
                               mode |-> Question(built[1]).mode,
                               concept |-> sel.concept,
                               question |-> built[1] ]
                        /\ sent_questions' = sent_questions \cup {built[1]}
    /\ UNCHANGED << call, ret, library, peer, clock, concepts, responses,
                    session, total_concepts_mastered, sequence_number,
                    result >>

\* The sequence number left as it is after an event was recorded.
NextSequenceNumberKept(n) == n

\* self.sequence_number += 1, after a response was recorded.
NextSequenceNumber(n) == n + 1

\* The session stats counting a question only when its answer is correct.
UpdateSessionStatsOfCorrect(stats, is_correct, mastered) ==
    [ stats EXCEPT
        !.total_questions = @ + (IF is_correct THEN 1 ELSE 0),
        !.total_correct = @ + (IF is_correct THEN 1 ELSE 0),
        !.concepts_mastered_this_session = @ + (IF mastered THEN 1 ELSE 0) ]

\* process_answer: "Update session stats".
UpdateSessionStats(stats, is_correct, mastered) ==
    [ stats EXCEPT
        !.total_questions = @ + 1,
        !.total_correct = @ + (IF is_correct THEN 1 ELSE 0),
        !.concepts_mastered_this_session = @ + (IF mastered THEN 1 ELSE 0) ]

\* The handler going on to the next question whatever process_answer said.
AfterFeedbackAlwaysNext(session_complete) == "awaiting_question"

\* After the feedback the handler sends session_complete and leaves its loop,
\* or goes on to the next question.
AfterFeedback(session_complete) ==
    IF session_complete THEN "complete" ELSE "awaiting_question"

\* An answer message: process_answer, then the feedback is sent. The client
\* sends at most limit messages that record an event.
ProcessAnswerOf(limit, messages, verdicts) ==
    /\ pc = "question_sent"
    /\ sequence_number < limit
    /\ \E msg \in messages :
         IF LookupQuestion(current_concept, current_mode) = {}
         THEN /\ result' = [ type |-> "feedback", correct |-> FALSE,
                             mastered |-> FALSE, session_complete |-> FALSE ]
              /\ pc' = "awaiting_question"
              /\ UNCHANGED << ucs, responses, session, total_concepts_mastered,
                              sequence_number >>
         ELSE \E q \in LookupQuestion(current_concept, current_mode) :
              LET response_time_ms == msg.response_time_ms
                  hesitation_ms == msg.hesitation_ms
                  verdict == verdicts[q][msg]
                  is_correct == verdict[1]
                  table == GetOrCreate(ucs, current_concept, clock)
                  updated == UpdateConceptState(table[current_concept],
                                 current_concept, is_correct, response_time_ms,
                                 hesitation_ms, current_mode, responses, clock)
                  mastered == MasteryGranted(updated)
                  after == WithRow(table, current_concept,
                                   CheckMastery(updated, clock))
                  complete == CheckSessionComplete(after, concepts)
              IN  /\ responses' = Append(responses,
                        ResponseRow(current_concept, q, SessionId, current_mode,
                                    msg.answer, is_correct, verdict[2], FALSE,
                                    FALSE, response_time_ms, sequence_number,
                                    clock))
                  /\ ucs' = after
                  /\ total_concepts_mastered' =
                        total_concepts_mastered + (IF mastered THEN 1 ELSE 0)
                  /\ session' = UpdateSessionStats(session, is_correct, mastered)
                  /\ sequence_number' = NextSequenceNumber(sequence_number)
                  /\ result' = [ type |-> "feedback", correct |-> is_correct,
                                 mastered |-> mastered,
                                 session_complete |-> complete ]
                  /\ pc' = AfterFeedback(complete)
    /\ UNCHANGED << call, ret, library, peer, sent_questions, clock, concepts,
                    current_concept, current_mode, asked_question_ids,
                    question_data >>

ProcessAnswer(limit) == ProcessAnswerOf(limit, AnswerMessages, VerdictTable)

\* process_skip counting the skip as a failed attempt that ends the streak.
SkippedStateAsFailedAttempt(row, now) ==
    [ row EXCEPT !.state = "struggling",
                 !.hesitation_count = @ + 1,
                 !.total_attempts = @ + 1,
                 !.consecutive_perfect = 0,
                 !.updated_at = now ]

\* process_skip: the row of the skipped concept after the skip.
SkippedState(row, now) ==
    [ row EXCEPT !.state = "struggling",
                 !.hesitation_count = @ + 1,
                 !.updated_at = now ]

\* A skip message: process_skip, then the acknowledgement is sent. The
\* client sends at most limit messages that record an event.
ProcessSkip(limit) ==
    /\ pc = "question_sent"
    /\ sequence_number < limit
    /\ LET table == GetOrCreate(ucs, current_concept, clock)
       IN  ucs' = WithRow(table, current_concept,
                          SkippedState(table[current_concept], clock))
    /\ responses' = Append(responses,
          ResponseRow(current_concept, 0, SessionId, current_mode, NoText, FALSE,
                      FALSE, TRUE, FALSE, 0, sequence_number, clock))
    /\ sequence_number' = NextSequenceNumber(sequence_number)
    /\ result' = [ type |-> "skip_recorded" ]
    /\ pc' = "awaiting_question"
    /\ UNCHANGED << call, ret, library, peer, sent_questions, clock, concepts,
                    session, total_concepts_mastered, current_concept,
                    current_mode, asked_question_ids, question_data >>

\* process_peek recording the peek as a correct answer.
PeekedResponseAsCorrect(c, q, mode, seq, now) ==
    ResponseRow(c, q, SessionId, mode, NoText, TRUE, FALSE, FALSE, TRUE, 0,
                seq, now)

\* process_peek: the response row it records.
PeekedResponse(c, q, mode, seq, now) ==
    ResponseRow(c, q, SessionId, mode, NoText, FALSE, FALSE, FALSE, TRUE, 0,
                seq, now)

\* A peek message: process_peek, then its reply is sent. The client sends at
\* most limit messages that record an event.
ProcessPeek(limit) ==
    /\ pc = "question_sent"
    /\ sequence_number < limit
    /\ IF LookupQuestion(current_concept, current_mode) = {}
       THEN /\ result' = [ type |-> "peek", answer |-> <<"definition">> ]
            /\ UNCHANGED << responses, sequence_number >>
       ELSE \E q \in LookupQuestion(current_concept, current_mode) :
            /\ responses' = Append(responses,
                  PeekedResponse(current_concept, q, current_mode,
                                 sequence_number, clock))
            /\ sequence_number' = NextSequenceNumber(sequence_number)
            /\ result' = [ type |-> "peek", answer |-> Question(q).answer_text ]
    /\ UNCHANGED << call, ret, library, peer, sent_questions, clock, concepts,
                    ucs, session, total_concepts_mastered, current_concept,
                    current_mode, asked_question_ids, pc, question_data >>

\* A hint message: get_hint, then its reply is sent.
GetHint ==
    /\ pc = "question_sent"
    /\ IF LookupQuestion(current_concept, current_mode) = {}
       THEN result' = [ type |-> "hint", hint |-> <<"name">> ]
       ELSE \E q \in LookupQuestion(current_concept, current_mode) :
            result' = [ type |-> "hint",
                        hint |-> GenerateHint(Question(q).answer_text) ]
    /\ UNCHANGED << call, ret, library, peer, sent_questions, clock, concepts,
                    ucs, responses, session, total_concepts_mastered,
                    current_concept, current_mode, sequence_number,
                    asked_question_ids, pc, question_data >>

\* The client disconnects while the handler waits for a message:
\* save_session_state.
Disconnect ==
    /\ pc = "question_sent"
    /\ session' = [ session EXCEPT !.end_time = clock ]
    /\ pc' = "disconnected"
    /\ UNCHANGED << call, ret, library, peer, sent_questions, clock, concepts,
                    ucs, responses, total_concepts_mastered, current_concept,
                    current_mode, sequence_number, asked_question_ids,
                    question_data, result >>

\* Time passes while the handler waits for a message of the client: 400
\* seconds, more than the 5 minutes of the rescue window. The handler's own
\* steps take far less than a tick.
Tick ==
    /\ pc = "question_sent"
    /\ \E d \in TickSteps :
         /\ clock + d <= MaxClock
         /\ clock' = clock + d
    /\ UNCHANGED << call, ret, library, peer, sent_questions, concepts, ucs,
                    responses, session, total_concepts_mastered,
                    current_concept, current_mode, sequence_number,
                    asked_question_ids, pc, question_data, result >>

Next ==
    \/ GetNextQuestion
    \/ ProcessAnswer(MaxEvents)
    \/ ProcessSkip(MaxEvents)
    \/ ProcessPeek(MaxEvents)
    \/ GetHint
    \/ Disconnect
    \/ Tick

Spec == Init /\ [][Next]_vars

(* ------------------- longer sessions of a new user -------------------- *)

\* Response rows a session of a new user on m2 may record when the client
\* only answers and skips.
MaxDeepEvents == 3

InitDeep == Start("m2", [ c \in AllConcepts |-> 0 ])

NextDeep ==
    \/ GetNextQuestion
    \/ ProcessAnswer(MaxDeepEvents)
    \/ ProcessSkip(MaxDeepEvents)
    \/ Tick

SpecDeep == InitDeep /\ [][NextDeep]_vars

(* ------------- a session next to one on another material -------------- *)

\* The user has just skipped a question of c1 in a session on m1 and starts
\* a session on m2.
InitOther ==
    StartWith("m2",
              [ c \in {"c1"} |->
                  SkippedState(NewConceptState(StartClock), StartClock) ],
              << ResponseRow("c1", 0, "s0", "GUIDED_SOLVE", NoText, FALSE,
                             FALSE, TRUE, FALSE, 0, 0, StartClock) >>,
              0)

SpecOther == InitOther /\ [][NextDeep]_vars

(* ------------------ answers with other response times ------------------ *)

\* Answer messages with the text of a correct answer and a response time of
\* 0, 1 or 2 seconds.
TimedMessages ==
    { [ answer |-> Ref1, response_time_ms |-> t, hesitation_ms |-> 0 ] :
        t \in {0, 1000, 2000} }

TimedVerdicts ==
    [ q \in QuestionIds |->
        [ msg \in TimedMessages |->
            EvaluateAnswer(msg.answer, Question(q).answer_text) ] ]

NextTimed ==
    \/ GetNextQuestion
    \/ ProcessAnswerOf(MaxDeepEvents, TimedMessages, TimedVerdicts)
    \/ Tick

SpecTimed == InitDeep /\ [][NextTimed]_vars

(* ------------- a second connection on the same session id ------------- *)

\* websocket_endpoint on a second connection with the session id of the
\* first: it looks the engine up in engagement_engines, where it stays until
\* the handler of some connection of the session has ended, and asks it for
\* its first question. Between two awaits on a websocket a handler runs
\* without interruption, so the step is atomic.
PeerConnect ==
    /\ peer.pc = "none"
    /\ IF pc \notin {"connected", "question_sent", "awaiting_question"}
          \/ concepts = <<>>
       THEN /\ peer' = [ pc |-> NoQuestion.pc,
                         question_data |-> NoQuestion.message ]
            /\ UNCHANGED << ucs, current_concept, current_mode,
                            asked_question_ids, sent_questions >>
       ELSE \E sel \in SelectNext :
            \E built \in BuildQuestion(sel.concept, sel.mode, asked_question_ids) :
                /\ current_concept' = sel.concept
                /\ current_mode' = sel.mode
                /\ ucs' = sel.table
                /\ asked_question_ids' = built[2]
                /\ IF built[1] = 0
                   THEN /\ peer' = [ pc |-> NoQuestion.pc,
                                     question_data |-> NoQuestion.message ]
                        /\ sent_questions' = sent_questions
                   ELSE /\ peer' = [ pc |-> "question_sent",
                                     question_data |->
                                       [ type |-> "question",
                                         mode |-> Question(built[1]).mode,
                                         concept |-> sel.concept,
                                         question |-> built[1] ] ]
                        /\ sent_questions' = sent_questions \cup {built[1]}
    /\ UNCHANGED << call, ret, library, clock, concepts, responses, session,
                    total_concepts_mastered, sequence_number, pc,
                    question_data, result >>

\* The second client disconnects while its handler waits for a message:
\* save_session_state.
PeerDisconnect ==
    /\ peer.pc = "question_sent"
    /\ session' = [ session EXCEPT !.end_time = clock ]
    /\ peer' = [ peer EXCEPT !.pc = "disconnected" ]
    /\ UNCHANGED << call, ret, library, sent_questions, clock, concepts, ucs,
                    responses, total_concepts_mastered, current_concept,
                    current_mode, sequence_number, asked_question_ids, pc,
                    question_data, result >>

\* The session with a second client that connects, receives its first
\* question and disconnects.
NextShared ==
    \/ Next
    \/ PeerConnect
    \/ PeerDisconnect

SpecShared == Init /\ [][NextShared]_vars

(* ---------------- a client that answers with what it peeked ------------- *)

\* The answer messages of a client that submits the text process_peek
\* returned.
PeekedMessages ==
    { [ answer |-> text, response_time_ms |-> 1000, hesitation_ms |-> 0 ] :
        text \in { Question(q).answer_text : q \in QuestionIds }
                    \cup {<<"definition">>} }

PeekVerdicts ==
    [ q \in QuestionIds |->
        [ msg \in PeekedMessages |->
            EvaluateAnswer(msg.answer, Question(q).answer_text) ] ]

\* The reply to the peek is on the client's screen and the client submits its
\* text as the answer.
AnswerPeeked ==
    /\ result.type = "peek"
    /\ ProcessAnswerOf(MaxEvents,
                       { msg \in PeekedMessages : msg.answer = result.answer },
                       PeekVerdicts)

NextPeek ==
    \/ GetNextQuestion
    \/ ProcessPeek(MaxEvents)
    \/ AnswerPeeked
    \/ Tick

SpecPeek == Init /\ [][NextPeek]_vars

(* --------------------- the mode selector on its own -------------------- *)

\* Largest total_attempts the selector is called with.
MaxAttempts == 11

\* No session: the engine variables of a run that only calls a function.
NoEngine ==
    /\ clock = 0
    /\ concepts = <<>>
    /\ ucs = <<>>
    /\ responses = <<>>
    /\ session = [ total_questions |-> 0,
                   total_correct |-> 0,
                   concepts_mastered_this_session |-> 0,
                   start_time |-> 0,
                   end_time |-> NULL ]
    /\ total_concepts_mastered = 0
    /\ current_concept = "None"
    /\ current_mode = "None"
    /\ sequence_number = 0
    /\ asked_question_ids = {}
    /\ pc = "none"
    /\ question_data = NoMessage
    /\ result = NoMessage
    /\ sent_questions = {}
    /\ peer = NoPeer
    /\ materials = <<>>
    /\ sessions = <<>>

InitMode ==
    /\ NoEngine
    /\ call \in { [ fn |-> "_select_mode", state |-> s, total_attempts |-> n ] :
                    s \in States, n \in 0..MaxAttempts }
    /\ ret = NoCall

\* _select_mode is called on a row with the state and total_attempts drawn.
CallSelectMode ==
    /\ call.fn = "_select_mode"
    /\ ret = NoCall
    /\ ret' = [ fn |-> "_select_mode",
                mode |-> SelectMode([ NewConceptState(0) EXCEPT
                                        !.state = call.state,
                                        !.total_attempts = call.total_attempts ]) ]
    /\ UNCHANGED << engine, library, call >>

NextMode == CallSelectMode

SpecMode == InitMode /\ [][NextMode]_vars

(* ------------------------ the evaluator on its own -------------------- *)

\* Most words of a submitted text.
MaxWords == 11

\* The words the texts are made of, in the cases they are typed in.
Letters == <<"a", "b", "c", "d", "e", "f", "g", "h", "i", "j", "k", "l">>

Capitals == <<"A", "B", "C", "D", "E", "F", "g", "h", "i", "j", "k", "l">>

\* The words joined by a separator.
RECURSIVE JoinWords(_, _)
JoinWords(ws, sep) ==
    IF Len(ws) = 0 THEN <<>>
    ELSE IF Len(ws) = 1 THEN <<ws[1]>>
    ELSE <<ws[1]>> \o sep \o JoinWords(Tail(ws), sep)

Reversed(ws) == [i \in 1..Len(ws) |-> ws[Len(ws) + 1 - i]]

TextForms == {"plain", "padded", "reversed", "tabbed", "doubled"}

\* A text of the first n words: as the reference has it; in capitals between
\* blanks; in the opposite order; separated by tabs and ended by a newline;
\* with the first word typed twice.
TextOf(n, form) ==
    LET ws == SubSeq(Letters, 1, n)
    IN  CASE form = "plain" -> JoinWords(ws, <<" ">>)
          [] form = "padded" ->
                <<" ">> \o JoinWords(SubSeq(Capitals, 1, n), <<" ">>) \o <<" ", " ">>
          [] form = "reversed" -> JoinWords(Reversed(ws), <<" ">>)
          [] form = "tabbed" -> JoinWords(ws, <<"\t">>) \o <<"\n">>
          [] form = "doubled" ->
                SubSeq(Letters, 1, Min(n, 1)) \o <<" ", " ">> \o JoinWords(ws, <<" ">>)

\* The numbers of words of the reference answers.
ReferenceWords == {0, 1, 4, 10}

InitEvaluate ==
    /\ NoEngine
    /\ call \in { [ fn |-> "_evaluate_answer",
                     user_answer |-> TextOf(n, form),
                     answer_text |-> TextOf(m, "plain") ] :
                    n \in 0..MaxWords, form \in TextForms, m \in ReferenceWords }
    /\ ret = NoCall

\* _evaluate_answer is called on the texts drawn.
CallEvaluateAnswer ==
    /\ call.fn = "_evaluate_answer"
    /\ ret = NoCall
    /\ LET verdict == EvaluateAnswer(call.user_answer, call.answer_text)
       IN  ret' = [ fn |-> "_evaluate_answer",
                    is_correct |-> verdict[1],
                    is_partial |-> verdict[2] ]
    /\ UNCHANGED << engine, library, call >>

NextEvaluate == CallEvaluateAnswer

SpecEvaluate == InitEvaluate /\ [][NextEvaluate]_vars

(* ---------------------- the hint maker on its own ---------------------- *)

\* Longest reference answer a hint is made of.
MaxAnswerLen == 25

AnswerForms == {"plain", "dots", "blanks"}

\* A reference answer of n characters: letters; letters ending in three
\* full stops; a letter followed by underscores.
AnswerOf(n, form) ==
    [ i \in 1..n |->
        CASE form = "plain" -> Letters[((i - 1) % Len(Letters)) + 1]
          [] form = "dots" ->
                IF i > n - 3 THEN "." ELSE Letters[((i - 1) % Len(Letters)) + 1]
          [] form = "blanks" -> IF i = 1 THEN "a" ELSE "_" ]

InitHint ==
    /\ NoEngine
    /\ call \in { [ fn |-> "_generate_hint", form |-> form,
                     answer_text |-> AnswerOf(n, form) ] :
                    n \in 0..MaxAnswerLen, form \in AnswerForms }
    /\ ret = NoCall

\* _generate_hint is called on the answer drawn; answer[0] raises IndexError
\* on an empty answer.
CallGenerateHint ==
    /\ call.fn = "_generate_hint"
    /\ ret = NoCall
    /\ ret' = IF Len(call.answer_text) > 0
              THEN [ fn |-> "_generate_hint", raised |-> FALSE,
                     hint |-> GenerateHint(call.answer_text) ]
              ELSE [ fn |-> "_generate_hint", raised |-> TRUE, hint |-> <<>> ]
    /\ UNCHANGED << engine, library, call >>

NextHint == CallGenerateHint

SpecHint == InitHint /\ [][NextHint]_vars

(* -------------------- the recall predictor on its own ------------------ *)

\* Latest tick of a correct answer and of an evaluation.
MaxRecallClock == 6

\* Most correct answers of a history.
MaxHistory == 2

\* Evaluations of one history.
MaxRecallCalls == 2

\* The created_at of the correct answers of a concept, in the order of the
\* query.
Histories ==
    { h \in UNION { [1..n -> 0..MaxRecallClock] : n \in 0..MaxHistory } :
        \A i \in 1..(Len(h) - 1) : h[i] <= h[i + 1] }

\* The rows of the correct answers created at the given ticks.
HistoryRows(stamps) ==
    [ i \in 1..Len(stamps) |->
        ResponseRow("c1", 1, SessionId, "GUIDED_SOLVE", NoText, TRUE, FALSE,
                    FALSE, FALSE, 1000, i - 1, stamps[i]) ]

\* What the evaluations so far returned.
RecallResults == IF ret = NoCall THEN <<>> ELSE ret.results

InitRecall ==
    /\ NoEngine
    /\ call \in { [ fn |-> "_calculate_predicted_recall", created_at |-> h,
                     now |-> n ] :
                    h \in Histories, n \in 0..MaxRecallClock }
    /\ ret = NoCall

\* _calculate_predicted_recall is called on the history at the time reached.
CallCalculatePredictedRecall ==
    /\ call.fn = "_calculate_predicted_recall"
    /\ Len(RecallResults) < MaxRecallCalls
    /\ ret' = [ fn |-> "_calculate_predicted_recall",
                results |-> Append(RecallResults,
                    [ now |-> call.now,
                      recall |-> CalculatePredictedRecall(Len(call.created_at),
                                     HistoryRows(call.created_at), "c1",
                                     call.now) ]) ]
    /\ UNCHANGED << engine, library, call >>

\* Time passes with no new response.
RecallTick ==
    /\ call.fn = "_calculate_predicted_recall"
    /\ call.now < MaxRecallClock
    /\ call' = [ call EXCEPT !.now = @ + 1 ]
    /\ UNCHANGED << engine, library, ret >>

NextRecall ==
    \/ CallCalculatePredictedRecall
    \/ RecallTick

SpecRecall == InitRecall /\ [][NextRecall]_vars

(* ------------------- uploading and starting sessions ------------------- *)

\* Most materials rows and most sessions rows.
MaxMaterials == 2

MaxSessions == 2

\* extract_concepts: it stops a search at 15 concepts, looks at sentences
\* below 10 concepts and at the first 20 of them, at paragraphs below 5
\* concepts and at the first 10 of them; a text of fewer than 10 characters
\* gets the sample concept.
ConceptCap == 15

SentencesBelow == 10

SentenceLimit == 20

ParagraphsBelow == 5

ParagraphLimit == 10

\* What the searches of extract_concepts find in a text: accepted matches of
\* the definition patterns, sentences of more than 40 characters, paragraphs
\* of more than 50 characters.
FoundDefinitions == {0, 1, 12, 16}

FoundSentences == {0, 2, 21}

FoundParagraphs == {0, 3, 11}

\* The files a client uploads: whether the name ends in .pdf, whether the
\* file opens, whether its native text is long and readable, what OCR makes
\* of it, and what the searches find in the text extracted.
Pdfs ==
    [ pdf_suffix : BOOLEAN, opens : BOOLEAN, native_readable : BOOLEAN,
      ocr : {"readable", "unreadable", "unavailable"},
      definitions : FoundDefinitions, sentences : FoundSentences,
      paragraphs : FoundParagraphs ]

\* PDFProcessor.extract: the quality it reports. Readable text has at least
\* 50 characters.
PdfExtract(pdf) ==
    IF pdf.native_readable
    THEN [ extraction_method |-> "native", text_quality |-> "good" ]
    ELSE IF pdf.ocr = "readable"
    THEN [ extraction_method |-> "ocr", text_quality |-> "good" ]
    ELSE IF pdf.ocr = "unreadable"
    THEN [ extraction_method |-> "ocr", text_quality |-> "poor" ]
    ELSE [ extraction_method |-> "native_failed", text_quality |-> "poor" ]

\* extract_concepts without its fallback concept.
ExtractConceptsWithoutFallback(tiny, definitions, sentences, paragraphs) ==
    IF tiny THEN 1
    ELSE LET found1 == Min(definitions, ConceptCap)
             found2 == IF found1 < SentencesBelow
                       THEN Min(found1 + Min(sentences, SentenceLimit),
                                ConceptCap)
                       ELSE found1
         IN  IF found2 < ParagraphsBelow
             THEN found2 + Min(paragraphs, ParagraphLimit)
             ELSE found2

\* extract_concepts: the number of concepts it creates for a text.
ExtractConcepts(tiny, definitions, sentences, paragraphs) ==
    IF tiny THEN 1
    ELSE LET found1 == Min(definitions, ConceptCap)
             found2 == IF found1 < SentencesBelow
                       THEN Min(found1 + Min(sentences, SentenceLimit),
                                ConceptCap)
                       ELSE found1
             found3 == IF found2 < ParagraphsBelow
                       THEN found2 + Min(paragraphs, ParagraphLimit)
                       ELSE found2
         IN  IF found3 = 0 THEN 1 ELSE found3

\* generate_questions: the modes it writes questions of, for every concept.
GeneratedModes ==
    { "RAPID_FIRE", "GUIDED_SOLVE", "COLLABORATIVE", "EXPLAIN_BACK",
      "FILL_STORY", "NUMBER_SWAP", "SPOT_ERROR", "BUILD_MAP", "MICRO_WINS" }

\* create_demo_material: its concepts and the modes of their questions.
DemoConcepts == 3

DemoModes == { "RAPID_FIRE", "GUIDED_SOLVE" }

\* upload_material letting every text quality pass.
AcceptsAnyQuality(pdf_data) == FALSE

\* upload_material: the text quality it rejects.
RejectsQuality(pdf_data) == pdf_data.text_quality = "poor"

\* The materials row of an upload and what was created for it; text_quality
\* is what extract reported, "none" when extract raised.
UploadedMaterial(status, quality, n, modes) ==
    [ origin |-> "upload", processing_status |-> status,
      text_quality |-> quality, concepts |-> n, question_modes |-> modes ]

\* upload_material: the whole request.
UploadMaterial ==
    /\ Len(materials) < MaxMaterials
    /\ \E pdf \in Pdfs, user \in {"none", "known", "unknown"} :
         IF ~pdf.pdf_suffix
         THEN /\ ret' = [ fn |-> "upload_material", status_code |-> 400,
                          total_concepts |-> 0 ]
              /\ UNCHANGED materials
         ELSE IF user = "unknown"
         THEN /\ ret' = [ fn |-> "upload_material", status_code |-> 404,
                          total_concepts |-> 0 ]
              /\ UNCHANGED materials
         ELSE IF ~pdf.opens
         THEN /\ ret' = [ fn |-> "upload_material", status_code |-> 500,
                          total_concepts |-> 0 ]
              /\ materials' = Append(materials,
                     UploadedMaterial("error", "none", 0, {}))
         ELSE LET pdf_data == PdfExtract(pdf)
                  n == ExtractConcepts(FALSE, pdf.definitions, pdf.sentences,
                                       pdf.paragraphs)
              IN  IF RejectsQuality(pdf_data)
                  THEN /\ ret' = [ fn |-> "upload_material",
                                   status_code |-> 400, total_concepts |-> 0 ]
                       /\ materials' = Append(materials,
                              UploadedMaterial("extracting",
                                               pdf_data.text_quality, 0, {}))
                  ELSE /\ ret' = [ fn |-> "upload_material",
                                   status_code |-> 200, total_concepts |-> n ]
                       /\ materials' = Append(materials,
                              UploadedMaterial("ready", pdf_data.text_quality,
                                               n, GeneratedModes))
    /\ UNCHANGED << engine, sessions, call >>

\* create_demo_material
CreateDemoMaterial ==
    /\ Len(materials) < MaxMaterials
    /\ materials' = Append(materials,
          [ origin |-> "demo", processing_status |-> "ready",
            text_quality |-> "none", concepts |-> DemoConcepts,
            question_modes |-> DemoModes ])
    /\ ret' = [ fn |-> "create_demo_material", status_code |-> 200,
                total_concepts |-> DemoConcepts ]
    /\ UNCHANGED << engine, sessions, call >>

\* start_session: the whole request, for a material id and a user id the
\* client names.
StartSession ==
    /\ Len(sessions) < MaxSessions
    /\ \E m \in 1..(MaxMaterials + 1), user \in {"known", "unknown"} :
         IF m \notin DOMAIN materials
         THEN /\ ret' = [ fn |-> "start_session", status_code |-> 404,
                          total_concepts |-> 0 ]
              /\ UNCHANGED sessions
         ELSE IF materials[m].processing_status # "ready"
         THEN /\ ret' = [ fn |-> "start_session", status_code |-> 400,
                          total_concepts |-> 0 ]
              /\ UNCHANGED sessions
         ELSE IF user = "unknown"
         THEN /\ ret' = [ fn |-> "start_session", status_code |-> 404,
                          total_concepts |-> 0 ]
              /\ UNCHANGED sessions
         ELSE /\ sessions' = Append(sessions, [ material_id |-> m ])
              /\ ret' = [ fn |-> "start_session", status_code |-> 200,
                          total_concepts |-> materials[m].concepts ]
    /\ UNCHANGED << engine, materials, call >>

InitPipeline ==
    /\ NoEngine
    /\ call = NoCall
    /\ ret = NoCall

NextPipeline ==
    \/ UploadMaterial
    \/ CreateDemoMaterial
    \/ StartSession

SpecPipeline == InitPipeline /\ [][NextPipeline]_vars

(* ------------------ the optimal-challenge stage on its own -------------- *)

\* The time of the selection, in ticks.
ScheduleClock == 30

\* One concept more than the stage takes from the top of its list.
ScheduledConcepts == 1..(TopN + 1)

\* What the table can hold for a concept: no row, or a row in one of the
\* states, a learning one updated just now or 50 minutes ago, a mastered one
\* due for review or not.
RowKinds ==
    { "none", "untouched", "struggling", "learning_now", "learning_old",
      "proficient", "due", "later" }

RowOfKind(kind, now) ==
    CASE kind = "untouched" -> NewConceptState(now)
      [] kind = "struggling" ->
            [ NewConceptState(now) EXCEPT !.state = "struggling" ]
      [] kind = "learning_now" ->
            [ NewConceptState(now) EXCEPT !.state = "learning" ]
      [] kind = "learning_old" ->
            [ NewConceptState(0) EXCEPT !.state = "learning" ]
      [] kind = "proficient" ->
            [ NewConceptState(now) EXCEPT !.state = "proficient" ]
      [] kind = "due" ->
            [ NewConceptState(0) EXCEPT !.state = "mastered",
                                        !.mastered_at = 0,
                                        !.next_review_at = now ]
      [] kind = "later" ->
            [ NewConceptState(0) EXCEPT !.state = "mastered",
                                        !.mastered_at = 0,
                                        !.next_review_at = now + 1 ]

\* The rows of the concepts whose kind is not "none".
TableOfKinds(kinds, now) ==
    [ c \in { d \in DOMAIN kinds : kinds[d] # "none" } |->
        RowOfKind(kinds[c], now) ]

InitOptimal ==
    /\ NoEngine
    /\ call \in { [ fn |-> "_select_optimal_concept", kinds |-> kinds,
                     now |-> ScheduleClock ] :
                    kinds \in [ScheduledConcepts -> RowKinds] }
    /\ ret = NoCall

\* _select_optimal_concept is called on the table drawn.
CallSelectOptimalConcept ==
    /\ call.fn = "_select_optimal_concept"
    /\ ret = NoCall
    /\ \E c \in SelectOptimalConcept(TableOfKinds(call.kinds, call.now),
                                      [ i \in ScheduledConcepts |-> i ],
                                      call.now) :
         ret' = [ fn |-> "_select_optimal_concept", concept |-> c ]
    /\ UNCHANGED << engine, library, call >>

NextOptimal == CallSelectOptimalConcept

SpecOptimal == InitOptimal /\ [][NextOptimal]_vars

(* ---------------------- the rescue stage on its own -------------------- *)

\* Most rows the responses table holds when the stage is called.
MaxRescueRows == 4

\* datetime.now() at the call: rows created at tick 1 are exactly five
\* minutes old, rows created at tick 0 are older.
RescueNow == RescueWindow + 1

RescueEvents == {"answer", "skip", "peek"}

RescueSessions == {SessionId, "s0"}

\* The rows process_answer, process_skip and process_peek write.
EventRow(event, sid, seq, now) ==
    IF event = "skip"
    THEN ResponseRow("c1", 0, sid, "RAPID_FIRE", NoText, FALSE, FALSE, TRUE,
                     FALSE, 0, seq, now)
    ELSE IF event = "peek"
    THEN ResponseRow("c1", 1, sid, "RAPID_FIRE", NoText, FALSE, FALSE, FALSE,
                     TRUE, 0, seq, now)
    ELSE ResponseRow("c1", 1, sid, "RAPID_FIRE", Question(1).answer_text, TRUE,
                     FALSE, FALSE, FALSE, 1000, seq, now)

RescueRowKinds ==
    [ event : RescueEvents, session_id : RescueSessions,
      created_at : { RescueNow - RescueWindow - 1, RescueNow - RescueWindow } ]

RescueTable(kinds) ==
    [ i \in 1..Len(kinds) |->
        EventRow(kinds[i].event, kinds[i].session_id, i - 1,
                 kinds[i].created_at) ]

InitRescue ==
    /\ NoEngine
    /\ call \in { [ fn |-> "_find_rescue_concept", kinds |-> kinds,
                     now |-> RescueNow ] :
                    kinds \in UNION { [1..n -> RescueRowKinds] :
                                        n \in 0..MaxRescueRows } }
    /\ ret = NoCall

\* _find_rescue_concept is called on the responses drawn.
CallFindRescueConcept ==
    /\ call.fn = "_find_rescue_concept"
    /\ ret = NoCall
    /\ LET found == FindRescueConcept(RescueTable(call.kinds), SessionId,
                                      call.now)
       IN  IF found = {}
           THEN ret' = [ fn |-> "_find_rescue_concept", concept |-> "None" ]
           ELSE \E c \in found :
                  ret' = [ fn |-> "_find_rescue_concept", concept |-> c ]
    /\ UNCHANGED << engine, library, call >>

NextRescue == CallFindRescueConcept

SpecRescue == InitRescue /\ [][NextRescue]_vars

(* ------------------------------ properties ---------------------------- *)

\* A step in which process_answer scored an answer: it recorded a response
\* that is neither a skip nor a peek.
AnswerScored ==
    /\ Len(responses') = Len(responses) + 1
    /\ ~responses'[Len(responses')].skipped
    /\ ~responses'[Len(responses')].peeked

\* A step in which get_next_question chose a concept and a mode.
QuestionChosen ==
    /\ pc \in {"connected", "awaiting_question"}
    /\ pc' \in {"question_sent", "closed"}
    /\ concepts # <<>>

\* The concepts of the material whose row says mastered.
MasteredConcepts(table) ==
    { c \in AllConcepts : c \in DOMAIN table /\ table[c].state = "mastered" }

\* C1: in every reachable state the accuracy of every (user, concept) row is
\* correct_attempts / total_attempts, and 0 when total_attempts is 0.
C1_AccuracyIsRatio ==
    \A c \in DOMAIN ucs :
        ucs[c].accuracy =
            IF ucs[c].total_attempts = 0 THEN 0
            ELSE (ucs[c].correct_attempts * Scale) \div ucs[c].total_attempts

\* A row updated in this session whose ratio is neither 0 nor 1.
C1_Witness ==
    /\ session.total_questions > 0
    /\ current_concept \in DOMAIN ucs
    /\ ucs[current_concept].correct_attempts > 0
    /\ ucs[current_concept].correct_attempts
         < ucs[current_concept].total_attempts

StreakBounded ==
    \A c \in DOMAIN ucs : ucs[c].max_streak >= ucs[c].consecutive_perfect

StreakStep ==
    /\ AnswerScored =>
          LET before == IF current_concept \in DOMAIN ucs
                        THEN ucs[current_concept].consecutive_perfect
                        ELSE 0
          IN  ucs'[current_concept].consecutive_perfect =
                 IF result'.correct THEN before + 1 ELSE 0
    /\ \A c \in DOMAIN ucs :
          /\ c \in DOMAIN ucs'
          /\ ucs'[c].max_streak >= ucs[c].max_streak

\* C2: after every process_answer consecutive_perfect is 0 if the verdict was
\* not correct and its previous value plus 1 if it was; max_streak never
\* decreases and is at least consecutive_perfect in every state.
C2_Streak == []StreakBounded /\ [][StreakStep]_vars

\* An answer that was not correct has just reset a streak of nine or more.
C2_Witness ==
    /\ pc = "awaiting_question"
    /\ result.type = "feedback"
    /\ ~result.correct
    /\ ucs[current_concept].consecutive_perfect = 0
    /\ ucs[current_concept].max_streak >= MinConsecutivePerfect - 1

\* C3: a concept whose state is mastered keeps that state under every
\* operation of the controller within a session.
C3_MasteryTerminal ==
    [][\A c \in DOMAIN ucs :
          ucs[c].state = "mastered" => ucs'[c].state = "mastered"]_vars

\* C4: mastery is granted at most once per (user, concept): the user's
\* total_concepts_mastered counts no concept twice, and the session's
\* concepts_mastered_this_session never exceeds the number of concepts of the
\* material.
C4_MasteryGrantedOnce ==
    /\ total_concepts_mastered
         <= Cardinality({ c \in DOMAIN ucs : ucs[c].mastered_at # NULL })
    /\ session.concepts_mastered_this_session <= Len(concepts)

\* The five criteria, on a row.
FiveCriteria(row) ==
    /\ row.accuracy >= AccuracyThreshold
    /\ row.consecutive_perfect >= MinConsecutivePerfect
    /\ (row.baseline_response_time_ms # NULL /\ row.avg_response_time_ms # NULL)
          => row.avg_response_time_ms * Scale
               <= SpeedRatioThreshold * row.baseline_response_time_ms
    /\ Len(row.formats_tested) >= 1
          => Len(row.formats_passed) * Scale
               >= FormatCoverageThreshold * Len(row.formats_tested)
    /\ row.predicted_recall_probability >= PredictedRecallThreshold

MasteryStep ==
    /\ \A c \in DOMAIN ucs' :
          (/\ ucs'[c].state = "mastered"
           /\ c \in DOMAIN ucs => ucs[c].state # "mastered")
             => FiveCriteria(ucs'[c])
    /\ (AnswerScored /\ result'.mastered)
          => /\ ucs'[current_concept].state = "mastered"
             /\ FiveCriteria(ucs'[current_concept])

\* C5: a concept becomes mastered, and process_answer reports mastered = true,
\* only if accuracy >= 0.99, consecutive_perfect >= 10, average response time
\* at most 1.3 times the baseline when both are recorded, at least 80% of the
\* tested formats passed when a format was tested, and predicted recall
\* >= 0.95.
C5_MasteryCriteria == [][MasteryStep]_vars

\* process_answer has just reported mastery of a concept that was not mastered
\* when the session began.
C5_Witness ==
    /\ result.type = "feedback"
    /\ result.mastered
    /\ pc \in {"awaiting_question", "complete"}
    /\ ucs[current_concept].state = "mastered"
    /\ ucs[current_concept].mastered_at >= session.start_time
    /\ ucs[current_concept].total_attempts = MinConsecutivePerfect

\* C6: process_answer evaluates the submitted text against the reference
\* answer of the question get_next_question returned last, and the response
\* it records references that question.
C6_AnswersServedQuestion ==
    [][AnswerScored =>
          LET event == responses'[Len(responses')]
              served == question_data.question
          IN  /\ event.question_id = served
              /\ result'.correct =
                    EvaluateAnswer(event.user_answer,
                                   Question(served).answer_text)[1]]_vars

\* C7: process_answer returns session_complete = true exactly when, after the
\* answer, every concept of the material is mastered.
C7_SessionComplete ==
    [][AnswerScored =>
          (result'.session_complete <=>
              \A i \in 1..Len(concepts) :
                  /\ concepts[i] \in DOMAIN ucs'
                  /\ ucs'[concepts[i]].state = "mastered")]_vars

\* An answer has just completed the session.
C7_Witness ==
    /\ pc = "complete"
    /\ result.type = "feedback"
    /\ result.session_complete
    /\ MasteredConcepts(ucs) = AllConcepts

\* The responses of the session recorded in the last 5 minutes.
InWindow ==
    { i \in 1..Len(responses) :
        /\ responses[i].session_id = SessionId
        /\ clock - responses[i].created_at <= RescueWindow }

SkipsOf(c) ==
    Cardinality({ i \in InWindow :
                    responses[i].skipped /\ responses[i].concept_id = c })

SkipsAboveThreshold ==
    /\ InWindow # {}
    /\ Cardinality({ i \in InWindow : responses[i].skipped }) * Scale
         > SkipRatioThreshold * Cardinality(InWindow)

ModeTable(state, total_attempts) ==
    CASE state = "untouched" -> "GUIDED_SOLVE"
      [] state = "struggling" -> "COLLABORATIVE"
      [] state = "learning" /\ total_attempts % 3 = 0 -> "RAPID_FIRE"
      [] state = "learning" /\ total_attempts % 3 = 1 -> "FILL_STORY"
      [] state = "learning" /\ total_attempts % 3 = 2 -> "NUMBER_SWAP"
      [] state = "proficient" /\ total_attempts % 2 = 0 -> "EXPLAIN_BACK"
      [] state = "proficient" /\ total_attempts % 2 = 1 -> "SPOT_ERROR"
      [] state = "mastered" -> "BUILD_MAP"

\* C9: the mode selector returns, for a state and a total_attempts, the mode
\* of the table: untouched GUIDED_SOLVE, struggling COLLABORATIVE, learning
\* RAPID_FIRE, FILL_STORY or NUMBER_SWAP as total_attempts mod 3 is 0, 1 or 2,
\* proficient EXPLAIN_BACK or SPOT_ERROR as total_attempts mod 2 is 0 or 1,
\* mastered BUILD_MAP.
C9_ModeTable ==
    ret.fn = "_select_mode" =>
        ret.mode = ModeTable(call.state, call.total_attempts)

\* The selector was called on an untouched row with attempts.
C9_Witness ==
    /\ ret.fn = "_select_mode"
    /\ call.state = "untouched"
    /\ call.total_attempts = MaxAttempts
    /\ ret.mode = "GUIDED_SOLVE"

\* C10 as stated: for every row with total_attempts = 0 the mode selector
\* returns GUIDED_SOLVE.
C10_FreshIsGuided ==
    \A c \in DOMAIN ucs :
        ucs[c].total_attempts = 0 => SelectMode(ucs[c]) = "GUIDED_SOLVE"

\* C10: for every row with total_attempts = 0 the mode selector returns
\* GUIDED_SOLVE unless the concept was skipped; then the state is struggling
\* and it returns COLLABORATIVE.
C10_FreshIsGuidedUnlessSkipped ==
    \A c \in DOMAIN ucs :
        ucs[c].total_attempts = 0 =>
            IF ucs[c].hesitation_count = 0
            THEN SelectMode(ucs[c]) = "GUIDED_SOLVE"
            ELSE /\ ucs[c].state = "struggling"
                 /\ SelectMode(ucs[c]) = "COLLABORATIVE"

\* get_next_question chose GUIDED_SOLVE for a concept never attempted.
C10_Witness ==
    /\ pc = "question_sent"
    /\ current_concept \in DOMAIN ucs
    /\ ucs[current_concept].total_attempts = 0
    /\ ucs[current_concept].hesitation_count = 0
    /\ current_mode = "GUIDED_SOLVE"

\* The word sets of the normalised texts of a call of the evaluator.
SubmittedWords == WordSet(Strip(Lower(call.user_answer)))

ReferenceWordSet == WordSet(Strip(Lower(call.answer_text)))

\* Whether the Jaccard index of the word sets is above tenths / 10; it is 0
\* when a word set is empty.
JaccardAbove(tenths) ==
    /\ SubmittedWords # {}
    /\ ReferenceWordSet # {}
    /\ Cardinality(SubmittedWords \cap ReferenceWordSet) * 10
         > tenths * Cardinality(SubmittedWords \cup ReferenceWordSet)

\* C11: the evaluator returns correct when the lowercased, trimmed texts are
\* equal or the Jaccard index of their word sets is above 0.9, partial and
\* not correct when the index is in (0.7, 0.9], incorrect otherwise; never
\* both, and an empty word set scores 0.
C11_Verdict ==
    ret.fn = "_evaluate_answer" =>
        LET equal == Strip(Lower(call.user_answer)) = Strip(Lower(call.answer_text))
        IN  /\ ret.is_correct = (equal \/ JaccardAbove(9))
            /\ ret.is_partial = (~equal /\ JaccardAbove(7) /\ ~JaccardAbove(9))
            /\ ~(ret.is_correct /\ ret.is_partial)

\* Nine of the ten words of the reference, in the opposite order: the index
\* is 0.9 and the verdict partial.
C11_Witness ==
    /\ ret.fn = "_evaluate_answer"
    /\ Cardinality(ReferenceWordSet) = 10
    /\ Cardinality(SubmittedWords) = 9
    /\ call.user_answer[1] = "i"
    /\ ret.is_partial
    /\ ~ret.is_correct

\* C12: in a session on a material with zero concepts the first
\* get_next_question yields no question, the handler sends an error message
\* and closes the connection, and no question message is ever sent.
C12_EmptyMaterial ==
    concepts = <<>> =>
        /\ question_data.type # "question"
        /\ pc \in {"connected", "closed"}
        /\ pc = "closed" => question_data.type = "error"

\* The session on the empty material after its first get_next_question.
C12_Witness ==
    /\ concepts = <<>>
    /\ pc = "closed"
    /\ question_data.type = "error"

\* C13: in every reachable state formats_passed is a subset of
\* formats_tested, and a mode is in formats_passed exactly when a scored
\* answer given in that mode for the (user, concept) was correct, whether or
\* not it was the first attempt in that mode.
C13_FormatsPassed ==
    \A c \in DOMAIN ucs :
        /\ Range(ucs[c].formats_passed) \subseteq Range(ucs[c].formats_tested)
        /\ \A i \in 1..Len(responses) :
              (responses[i].concept_id = c /\ responses[i].is_correct)
                 => InList(responses[i].mode, ucs[c].formats_passed)
        /\ \A mode \in Range(ucs[c].formats_passed) :
              \E i \in 1..Len(responses) :
                 /\ responses[i].concept_id = c
                 /\ responses[i].mode = mode
                 /\ responses[i].is_correct

\* C14: get_next_question never returns a question already sent in the
\* session as long as the pool of the selected concept and mode holds a
\* question not yet sent in the session.
C14_NoRepeat ==
    [][(QuestionChosen /\ question_data'.type = "question"
          /\ QuestionsIn(current_concept', current_mode') \ sent_questions # {})
         => question_data'.question \notin sent_questions]_vars

\* C15: on a material with at least one concept, get_next_question yields no
\* question (error message, connection closed) only when the selected concept
\* has no question at all.
C15_NoneOnlyWithoutQuestions ==
    [][(QuestionChosen /\ question_data'.type = "error")
         => QuestionsOf(current_concept') = {}]_vars

\* C16: while the question sent on a connection waits for the client's
\* message, the controller's current concept and mode do not change, and an
\* answer is scored against the concept of the question sent to the client
\* that answered.
C16_OneConnectionDrives ==
    [][/\ (pc = "question_sent" /\ pc' = "question_sent")
            => (current_concept' = current_concept
                /\ current_mode' = current_mode)
       /\ AnswerScored
            => responses'[Len(responses')].concept_id = question_data.concept]_vars

\* A step in which process_skip recorded a skip.
SkipRecorded ==
    /\ pc = "question_sent"
    /\ pc' = "awaiting_question"
    /\ result'.type = "skip_recorded"

\* The fields of a concept's row that only scored answers change.
ScoredFields(row) ==
    << row.total_attempts, row.correct_attempts, row.accuracy,
       row.consecutive_perfect, row.max_streak, row.formats_tested,
       row.formats_passed >>

\* C17: process_skip appends exactly one response, with skipped = true,
\* is_correct = false and no question; the concept's state becomes
\* struggling, hesitation_count and the sequence number grow by one; the
\* attempt counts, accuracy, streaks, format sets and all session counters
\* stay as they were.
C17_SkipFrame ==
    [][SkipRecorded =>
         LET c == current_concept
             before == GetOrCreate(ucs, c, clock)[c]
             last == responses'[Len(responses')]
         IN  /\ Len(responses') = Len(responses) + 1
             /\ SubSeq(responses', 1, Len(responses)) = responses
             /\ last.skipped /\ ~last.is_correct /\ ~last.peeked
             /\ last.question_id = 0
             /\ last.concept_id = c
             /\ ucs'[c].state = "struggling"
             /\ ucs'[c].hesitation_count = before.hesitation_count + 1
             /\ sequence_number' = sequence_number + 1
             /\ ScoredFields(ucs'[c]) = ScoredFields(before)
             /\ \A d \in DOMAIN ucs : d # c => ucs'[d] = ucs[d]
             /\ session' = session
             /\ total_concepts_mastered' = total_concepts_mastered]_vars

\* A skip was recorded for a concept that had a streak of correct answers.
C17_Witness ==
    /\ result.type = "skip_recorded"
    /\ responses[Len(responses)].skipped
    /\ current_concept \in DOMAIN ucs
    /\ ucs[current_concept].state = "struggling"
    /\ ucs[current_concept].consecutive_perfect > 0
    /\ ucs[current_concept].hesitation_count > 1

\* A step in which process_peek answered a peek message.
PeekAnswered ==
    /\ pc = "question_sent"
    /\ result'.type = "peek"
    /\ (result' # result \/ Len(responses') > Len(responses))

HintAnswered ==
    /\ pc = "question_sent"
    /\ result'.type = "hint"
    /\ result' # result

\* get_hint in a session: it records no response and changes no state, and
\* its hint is made of the reference answer of a question of the concept.
HintFrame ==
    [][HintAnswered =>
         /\ << clock, concepts, ucs, responses, session,
               total_concepts_mastered, current_concept, current_mode,
               sequence_number, asked_question_ids, pc, question_data >>' =
            << clock, concepts, ucs, responses, session,
               total_concepts_mastered, current_concept, current_mode,
               sequence_number, asked_question_ids, pc, question_data >>
         /\ \E q \in QuestionsOf(current_concept) :
               result'.hint = GenerateHint(Question(q).answer_text)]_vars

\* C20: for a fixed history of correct answers the predicted recall does not
\* grow with the evaluation time: an evaluation at a later time returns no
\* more than one at an earlier time, also when the history has answers that
\* are not in the past at the earlier time.
C20_RecallDecays ==
    \A i, j \in 1..Len(RecallResults) :
        (i < j /\ RecallResults[i].now <= RecallResults[j].now)
            => RecallResults[j].recall <= RecallResults[i].recall

\* C25: no row has state learning together with an accuracy of at least 0.99
\* and at least 10 consecutive correct answers, so _find_validation_concept
\* finds no concept and get_next_question never selects MASTERY_VALIDATION.
C25_NoValidation ==
    /\ \A c \in DOMAIN ucs :
          ~( /\ ucs[c].state = "learning"
             /\ ucs[c].accuracy >= AccuracyThreshold
             /\ ucs[c].consecutive_perfect >= MinConsecutivePerfect )
    /\ FindValidationConcept(ucs, concepts) = {}
    /\ current_mode # "MASTERY_VALIDATION"

\* A question was served for a concept whose row has the accuracy and the
\* streak the validation query asks for.
C25_Witness ==
    /\ pc = "question_sent"
    /\ current_concept \in DOMAIN ucs
    /\ ucs[current_concept].accuracy >= AccuracyThreshold
    /\ ucs[current_concept].consecutive_perfect >= MinConsecutivePerfect
    /\ ucs[current_concept].state = "proficient"

\* C24: a concept becomes mastered only after a question of the concept was
\* served in mode MASTERY_VALIDATION: the row of the answer that grants
\* mastery, or an earlier row of the concept, carries that mode.
C24_ValidationBeforeMastery ==
    [][\A c \in DOMAIN ucs' :
          (/\ ucs'[c].state = "mastered"
           /\ c \in DOMAIN ucs => ucs[c].state # "mastered")
             => \E i \in 1..Len(responses') :
                   /\ responses'[i].concept_id = c
                   /\ responses'[i].mode = "MASTERY_VALIDATION"]_vars

\* The modes get_next_question can select for a concept: the rescue mode and
\* the modes of _select_mode.
SelectableModes ==
    {"MICRO_WINS"} \cup
    { SelectMode([ NewConceptState(0) EXCEPT !.state = st,
                                             !.total_attempts = n ]) :
        st \in {"untouched", "struggling", "learning", "proficient",
                "mastered"},
        n \in 0..5 }

\* C21: every concept of a material whose processing status is ready has a
\* question in every mode get_next_question can select.
C21_QuestionsForEveryMode ==
    \A i \in DOMAIN materials :
        materials[i].processing_status = "ready"
            => SelectableModes \subseteq materials[i].question_modes

\* C22: a material whose extracted text is of poor quality gets no concept
\* and no question, never has processing status ready, and no session is
\* started on it; the upload is answered with a rejection.
C22_PoorRejected ==
    /\ \A i \in DOMAIN materials :
          materials[i].text_quality = "poor"
            => /\ materials[i].concepts = 0
               /\ materials[i].question_modes = {}
               /\ materials[i].processing_status # "ready"
               /\ \A j \in DOMAIN sessions : sessions[j].material_id # i
    /\ (ret.fn = "upload_material" /\ ret.status_code = 200)
          => materials[Len(materials)].text_quality = "good"

\* A session was refused on a material of poor text quality.
C22_Witness ==
    /\ ret.fn = "start_session"
    /\ ret.status_code = 400
    /\ \E i \in DOMAIN materials :
          /\ materials[i].text_quality = "poor"
          /\ materials[i].processing_status = "extracting"
    /\ \A i \in DOMAIN materials : materials[i].processing_status # "error"

\* C23: every session was created for a material with at least one concept.
C23_NoSessionWithoutConcepts ==
    /\ \A j \in DOMAIN sessions :
          materials[sessions[j].material_id].concepts >= 1
    /\ (ret.fn = "start_session" /\ ret.status_code = 200)
          => ret.total_concepts >= 1

\* A session was started on an uploaded material with a single concept.
C23_Witness ==
    /\ ret.fn = "start_session"
    /\ ret.status_code = 200
    /\ ret.total_concepts = 1
    /\ \E j \in DOMAIN sessions :
          /\ materials[sessions[j].material_id].origin = "upload"
          /\ materials[sessions[j].material_id].concepts = 1

\* The kinds of rows that have a score, and the scores, in minutes: mastered
\* and due for review 50, struggling 100, learning 60 plus the minutes since
\* the last update and at most 90, untouched or without a row 90.
ListedKinds ==
    { "none", "untouched", "struggling", "learning_now", "learning_old",
      "due" }

ListedScore(kind) ==
    CASE kind = "due" -> 50
      [] kind = "struggling" -> 100
      [] kind = "learning_now" -> Min(60 + 0, 90)
      [] kind = "learning_old" ->
            Min(60 + (ScheduleClock * 60) \div TicksPerHour, 90)
      [] OTHER -> 90

\* The concept returned has a score and fewer than five concepts with a
\* score have a higher one, when the kinds of rows in the set have a score.
AmongTopFive(scoring) ==
    (/\ ret.fn = "_select_optimal_concept"
     /\ \E c \in ScheduledConcepts : call.kinds[c] \in scoring)
        => /\ call.kinds[ret.concept] \in scoring
           /\ Cardinality({ d \in ScheduledConcepts :
                              /\ call.kinds[d] \in scoring
                              /\ ListedScore(call.kinds[d])
                                   > ListedScore(call.kinds[ret.concept]) })
                < TopN

\* C26: the concept chosen by the optimal-challenge stage is one of the five
\* highest-scoring concepts under the scores mastered and due 50, struggling
\* 100, learning min(60 + minutes since the last update, 90), untouched or
\* without a row 90; a mastered concept not due for review is never chosen.
C26_TopFive == AmongTopFive(ListedKinds)

\* C26, amended: the same with a proficient concept scoring 90 as an
\* untouched one does.
C26_TopFiveWithProficient == AmongTopFive(ListedKinds \cup {"proficient"})

\* A learning concept just updated was chosen although the six concepts
\* include a struggling, an untouched and a proficient one and one mastered
\* and not due.
C26_Witness ==
    /\ ret.fn = "_select_optimal_concept"
    /\ call.kinds[ret.concept] = "learning_now"
    /\ \E d \in ScheduledConcepts : call.kinds[d] = "later"
    /\ \E d \in ScheduledConcepts : call.kinds[d] = "struggling"
    /\ \E d \in ScheduledConcepts : call.kinds[d] = "proficient"
    /\ \E d \in ScheduledConcepts : call.kinds[d] = "untouched"

\* The rows drawn that are of the session and at most 5 minutes old.
CountedRows ==
    { i \in 1..Len(call.kinds) :
        /\ call.kinds[i].session_id = SessionId
        /\ call.now - call.kinds[i].created_at <= RescueWindow }

CountedSkips == { i \in CountedRows : call.kinds[i].event = "skip" }

AllMasteredNoneDue ==
    /\ concepts # <<>>
    /\ \A c \in Range(concepts) :
          /\ c \in DOMAIN ucs
          /\ ucs[c].state = "mastered"
          /\ ~(Truthy(ucs[c].next_review_at) /\ ucs[c].next_review_at <= clock)

\* C28: when every concept of the material is mastered and none is due for
\* review, get_next_question selects no concept and sends no question.
C28_NoQuestionWhenAllMastered ==
    [][(QuestionChosen /\ AllMasteredNoneDue)
          => /\ question_data'.type # "question"
             /\ current_concept' = current_concept]_vars

\* C29: after every scored answer whose updated row meets the five criteria
\* (the update leaves no row in the state mastered), process_answer returns
\* mastered = true, the row's state is mastered, and the user's
\* total_concepts_mastered and the session's concepts_mastered_this_session
\* are each one more than before the answer.
C29_MasteryGranted ==
    [][(AnswerScored /\ FiveCriteria(ucs'[current_concept]))
          => /\ result'.mastered
             /\ ucs'[current_concept].state = "mastered"
             /\ total_concepts_mastered' = total_concepts_mastered + 1
             /\ session'.concepts_mastered_this_session
                  = session.concepts_mastered_this_session + 1]_vars

\* The answer has just mastered the last concept of a user who mastered the
\* other one in an earlier session.
C29_Witness ==
    /\ pc = "complete"
    /\ result.type = "feedback"
    /\ result.mastered
    /\ FiveCriteria(ucs[current_concept])
    /\ session.concepts_mastered_this_session = 1
    /\ total_concepts_mastered = Len(concepts)
    /\ \E c \in DOMAIN ucs :
          /\ ucs[c].mastered_at # NULL
          /\ ucs[c].mastered_at < session.start_time

\* next_review_at is set on the rows that have reached mastered, and only on
\* them, seven days after the time of mastery.
ReviewDateOfMastery ==
    \A c \in DOMAIN ucs :
        /\ ucs[c].next_review_at # NULL <=> ucs[c].mastered_at # NULL
        /\ ucs[c].next_review_at # NULL
              => ucs[c].next_review_at = ucs[c].mastered_at + ReviewDelay

ReviewDateKept ==
    \A c \in DOMAIN ucs :
        ucs[c].next_review_at # NULL
            => ucs'[c].next_review_at = ucs[c].next_review_at

\* C30: next_review_at is set exactly on the rows that have reached mastered,
\* it is the time of mastery plus 7 days, and once set no operation changes it.
C30_ReviewDateSetOnce == []ReviewDateOfMastery /\ [][ReviewDateKept]_vars

\* The state the numeric fields of a row call for.
StateOfFields(row) ==
    IF row.accuracy < LearningFrom THEN "struggling"
    ELSE IF row.accuracy >= AccuracyThreshold
            /\ row.consecutive_perfect >= MinConsecutivePerfect THEN "proficient"
    ELSE "learning"

StateRecomputed ==
    (AnswerScored /\ ~result'.mastered)
        => ucs'[current_concept].state = StateOfFields(ucs'[current_concept])

NoAttemptedRowUntouched ==
    \A c \in DOMAIN ucs :
        ucs[c].total_attempts > 0 => ucs[c].state # "untouched"

\* C31: after every scored answer that does not grant mastery the state of the
\* concept is struggling if accuracy < 0.7, proficient if accuracy >= 0.99 and
\* consecutive_perfect >= 10, and learning otherwise; no row with
\* total_attempts > 0 has the state untouched.
C31_StateFromFields == []NoAttemptedRowUntouched /\ [][StateRecomputed]_vars

\* An answer has just left the accuracy between 0.5 and 0.7.
C31_Witness ==
    /\ pc = "awaiting_question"
    /\ result.type = "feedback"
    /\ ~result.mastered
    /\ ucs[current_concept].accuracy >= StrugglingBelow
    /\ ucs[current_concept].accuracy < LearningFrom
    /\ ucs[current_concept].state = "struggling"
    /\ ~responses[Len(responses)].skipped

MasteredNotDue(table, c, now) ==
    /\ c \in DOMAIN table
    /\ table[c].state = "mastered"
    /\ ~(Truthy(table[c].next_review_at) /\ table[c].next_review_at <= now)

\* C32: get_next_question serves no concept that is mastered and not due for
\* review while a concept of the material is not mastered, whichever stage
\* selects the concept.
C32_NoMasteredWhileOthersOpen ==
    [][(QuestionChosen /\ pc' = "question_sent"
          /\ \E d \in Range(concepts) :
                d \notin DOMAIN ucs \/ ucs[d].state # "mastered")
          => ~MasteredNotDue(ucs, current_concept', clock)]_vars

C34_EndTimeSet ==
    pc \in {"disconnected", "complete"} => session.end_time # NULL

\* The handler's turn: what it may send from each of its positions.
TurnStep ==
    /\ (pc = "connected" /\ pc' # pc)
          => /\ question_data'.type \in {"question", "error"}
             /\ result' = result
    /\ (pc = "question_sent" /\ pc' \in {"awaiting_question", "complete"})
          => /\ result'.type \in {"feedback", "skip_recorded"}
             /\ question_data' = question_data
             /\ pc' = "complete"
                  => result'.type = "feedback" /\ result'.session_complete
    /\ (pc = "awaiting_question" /\ pc' # pc)
          => /\ pc' \in {"question_sent", "closed"}
             /\ question_data'.type =
                  (IF pc' = "question_sent" THEN "question" ELSE "error")
             /\ result' = result
    /\ (pc = "question_sent" /\ pc' = "question_sent")
          => question_data' = question_data
    /\ (\/ pc \in {"complete", "closed"}
        \/ (result.type = "feedback" /\ result.session_complete)
        \/ question_data.type = "error")
          => /\ question_data' = question_data
             /\ result' = result

\* C35: on one connection the first message is a question or an error; an
\* answer is followed by one feedback and a skip by one acknowledgement before
\* the next question or error; peek and hint replies are followed by no new
\* question; after session_complete or an error nothing more is sent.
C35_TurnProtocol == [][TurnStep]_vars

\* The client peeked, which brought no new question, then skipped, and the
\* acknowledgement was followed by a question.
C35_Witness ==
    /\ pc = "question_sent"
    /\ result.type = "skip_recorded"
    /\ question_data.type = "question"
    /\ Len(responses) >= 2
    /\ responses[Len(responses)].skipped
    /\ responses[Len(responses) - 1].peeked

SessionCountStep ==
    /\ AnswerScored
          => /\ session'.total_questions = session.total_questions + 1
             /\ session'.total_correct =
                  session.total_correct
                    + (IF responses'[Len(responses')].is_correct THEN 1 ELSE 0)
             /\ result'.correct = responses'[Len(responses')].is_correct
    /\ ~AnswerScored
          => /\ session'.total_questions = session.total_questions
             /\ session'.total_correct = session.total_correct

\* C36: each scored answer adds 1 to the session's total_questions and adds 1
\* to total_correct exactly when its verdict is correct; skips, peeks and
\* hints leave both as they are; total_correct <= total_questions in every
\* state.
C36_SessionCounts ==
    /\ [](session.total_correct <= session.total_questions)
    /\ [][SessionCountStep]_vars

\* A session with a correct answer and one that was not correct.
C36_Witness ==
    /\ session.total_questions = 2
    /\ session.total_correct = 1
    /\ result.type = "feedback"
    /\ ~result.correct

\* The rows of the session, in the order they were recorded.
SessionRows == SelectSeq(responses, LAMBDA r : r.session_id = SessionId)

SequenceIncreasing ==
    \A i, j \in 1..Len(SessionRows) :
        i < j => SessionRows[i].sequence_number < SessionRows[j].sequence_number

SequenceKeptWithoutEvent ==
    Len(responses') = Len(responses) => sequence_number' = sequence_number

\* C37: the sequence numbers of the response events of the session (answers,
\* skips and peeks) are strictly increasing in the order of recording, and an
\* operation that records no event leaves the number as it is.
C37_SequenceNumbers == []SequenceIncreasing /\ [][SequenceKeptWithoutEvent]_vars

\* The session recorded a peek and then a skip, and a hint was given since.
C37_Witness ==
    /\ Len(SessionRows) = 2
    /\ SessionRows[1].peeked
    /\ SessionRows[2].skipped
    /\ result.type = "hint"

\* The question pool of the session's material.
MaterialQuestions ==
    { q \in QuestionIds : Question(q).concept_id \in Range(concepts) }

\* C38: every question get_next_question returns is a question of the
\* controller's current concept, which is a concept of the session's
\* material; the asked-question set is a subset of the material's question
\* pool and is never larger than that pool.
C38_QuestionsOfMaterial ==
    /\ pc = "question_sent"
          => /\ question_data.type = "question"
             /\ question_data.concept = current_concept
             /\ Question(question_data.question).concept_id = current_concept
             /\ current_concept \in Range(concepts)
    /\ asked_question_ids \subseteq MaterialQuestions
    /\ Cardinality(asked_question_ids) <= Cardinality(MaterialQuestions)

\* Rescue has chosen c3 after a skip of the session while the skip of c1 in
\* the session on the other material is less than five minutes old.
C38_Witness ==
    /\ pc = "question_sent"
    /\ current_mode = "MICRO_WINS"
    /\ current_concept = "c3"
    /\ question_data.question \in asked_question_ids
    /\ \E i \in 1..Len(responses) :
          /\ responses[i].session_id # SessionId
          /\ responses[i].concept_id \notin Range(concepts)
          /\ responses[i].skipped
          /\ clock - responses[i].created_at <= RescueWindow

AnnouncedModeIsCurrent ==
    (pc = "question_sent" /\ question_data.type = "question")
        => question_data.mode = current_mode

AnnouncedModeRecorded ==
    AnswerScored
        => /\ responses'[Len(responses')].mode = question_data.mode
           /\ InList(question_data.mode, ucs'[current_concept].formats_tested)

\* C39: the mode announced in the question message is the mode the controller
\* holds as current, records in the response to the answer and has in
\* formats_tested after it, also when _build_question fell back to a question
\* of another mode.
C39_AnnouncedMode == []AnnouncedModeIsCurrent /\ [][AnnouncedModeRecorded]_vars

BaselineStep ==
    \A c \in DOMAIN ucs' :
        IF c \in DOMAIN ucs /\ ucs[c].total_attempts > 0
        THEN ucs'[c].baseline_response_time_ms
                = ucs[c].baseline_response_time_ms
        ELSE ucs'[c].total_attempts > 0
                => ucs'[c].baseline_response_time_ms
                     = responses'[Len(responses')].response_time_ms

\* C40: the first scored answer for a concept sets baseline_response_time_ms
\* to its response time, and no later operation changes it, whatever the
\* response times, 0 included.
C40_BaselineSetOnce == [][BaselineStep]_vars

====
